---- MODULE Spec2Model ----
(***************************************************************************)
(* SocketsManager of the zmq driver's publishers                           *)
(* (oslo_messaging/_drivers/zmq_driver/client/publishers/                  *)
(* zmq_publisher_base.py): the cache of outbound sockets keyed by          *)
(* str(target), refreshed in place when zmq_target_expire has elapsed.     *)
(*                                                                         *)
(* Spec runs the manager with one caller: every call of get_socket,        *)
(* get_socket_to_broker and cleanup is one step.  The matchmaker, the      *)
(* ZmqSocket connects and the clock are the environment: the result of     *)
(* get_hosts, the connect that raises (if any) and the passing of time     *)
(* are inputs chosen in each step.  Any connect may raise in any state,    *)
(* and none has to: a connect on a closed socket is left open both ways.   *)
(* The clock never goes back.  Sockets are named by the order of their     *)
(* creation, so two sockets are the same object iff they are the same      *)
(* number.                                                                 *)
(***************************************************************************)
EXTENDS Integers, Sequences, FiniteSets, TLC

\* ---------------------------------------------------------------- bounds
MaxTime == 2         \* the clock runs over 0..MaxTime
MaxCalls == 3        \* get_socket + get_socket_to_broker calls in a run
ExpireThreshold == 1 \* the positive value of conf.zmq_target_expire tried
MaxConcCalls == 2    \* calls in a run with concurrent callers

Targets == {"topic-A", "topic-B"}
Hosts == {"h1"}

\* conf.zmq_target_expire: negative = never expire, 0 = always refresh
ExpireValues == {-1, 0, ExpireThreshold}

\* str(target), the key of outbound_sockets
Str(target) == "<Target topic=" \o target \o ">"

\* the hosts of a list, as a set
Range(hosts) == {hosts[i] : i \in DOMAIN hosts}

\* what matchmaker.get_hosts can do: raise, or return a list of hosts
HostLists == {h \in UNION {[1..n -> Hosts] : n \in 0..Cardinality(Hosts)} :
                 Cardinality(Range(h)) = Len(h)}
Discoveries == {[raised |-> TRUE, hosts |-> <<>>]}
                 \cup {[raised |-> FALSE, hosts |-> h] : h \in HostLists}

VARIABLES
    outbound_sockets,  \* self.outbound_sockets: key -> <<socket, tm>>
    sockets,           \* the ZmqSocket objects created so far, by identity
    connected,         \* sockets on which some call finished all its connects
    zmq_target_expire, \* self.conf.zmq_target_expire
    now,               \* time.time()
    lookups,           \* per target: calls of matchmaker.get_hosts so far
    calls,             \* per target: get_socket calls so far
    ncalls,            \* get_socket + get_socket_to_broker calls so far
    last,              \* the call that ended last: its result (ret) or error
    threads            \* concurrent callers: where each is in its call

vars == <<outbound_sockets, sockets, connected, zmq_target_expire, now,
          lookups, calls, ncalls, last, threads>>

\* ------------------------------------------------------------ ZmqSocket
\* zmq_socket.ZmqSocket(conf, context, socket_type): open, linked to nothing
ZmqSocket == [hosts |-> {}, broker |-> FALSE, closed |-> FALSE]

\* socket.connect_to_host(host): one more host link
connect_to_host(socket, host) == [socket EXCEPT !.hosts = @ \cup {host}]

\* socket.connect_to_address(get_broker_address(conf))
connect_to_address(socket) == [socket EXCEPT !.broker = TRUE]

\* socket.close(): closing twice does not raise
close(socket) == [socket EXCEPT !.closed = TRUE]

\* the first n connects of "for host in hosts: socket.connect_to_host(host)"
RECURSIVE ConnectHosts(_, _, _)
ConnectHosts(socket, hosts, n) ==
    IF n = 0 THEN socket
    ELSE connect_to_host(ConnectHosts(socket, hosts, n - 1), hosts[n])

\* ------------------------------------------------------- SocketsManager
\* the callers of the runs with concurrent calls
Threads == {"a", "b"}

\* a caller that is in no call.  pc: the line it is to run next; op, target,
\* socket, tm: the call and its locals; miss: get_socket found no entry;
\* ret, err: how its last call ended (the socket returned, the exception
\* raised); view, size, todo, snap: the iterator of cleanup()
Idle == [pc |-> "idle", op |-> "none", target |-> "", socket |-> 0, tm |-> 0,
         miss |-> FALSE, ret |-> 0, err |-> "",
         view |-> FALSE, size |-> 0, todo |-> {}, snap |-> <<>>]

\* no call yet; hosts: what get_hosts returned to the call, if it was asked
NoCall == [op |-> "none", target |-> "", ok |-> TRUE, ret |-> 0, hosts |-> {}]

Init ==
    /\ outbound_sockets = <<>>
    /\ sockets = <<>>
    /\ connected = {}
    /\ zmq_target_expire \in ExpireValues
    /\ now = 0
    /\ lookups = [t \in Targets |-> 0]
    /\ calls = [t \in Targets |-> 0]
    /\ ncalls = 0
    /\ last = NoCall
    /\ threads = [th \in Threads |-> Idle]

\* _track_socket that stores no time (the entry's timestamp stays 0)
TrackSocketNoTime(cache, socket, target) ==
    [k \in DOMAIN cache \cup {Str(target)} |->
        IF k = Str(target) THEN <<socket, 0>> ELSE cache[k]]

\* _track_socket that uses the target itself, not str(target), for the key
TrackSocketRawKey(cache, socket, target) ==
    [k \in DOMAIN cache \cup {target} |->
        IF k = target THEN <<socket, now>> ELSE cache[k]]

\* _track_socket: self.outbound_sockets[str(target)] = (socket, time.time())
TrackSocket(cache, socket, target) ==
    [k \in DOMAIN cache \cup {Str(target)} |->
        IF k = Str(target) THEN <<socket, now>> ELSE cache[k]]

\* the expiry test with its second comparison turned round
ExpiredFlipped(tm) ==
    0 <= zmq_target_expire /\ zmq_target_expire >= now - tm

\* the expiry test with a strict second comparison
ExpiredStrict(tm) ==
    0 <= zmq_target_expire /\ zmq_target_expire < now - tm

\* the expiry test without the check for the negative sentinel
ExpiredNoSentinel(tm) ==
    zmq_target_expire <= now - tm

\* the expiry test that takes 0, too, for "never expire"
ExpiredPositive(tm) ==
    0 < zmq_target_expire /\ zmq_target_expire <= now - tm

\* 0 <= self.conf.zmq_target_expire <= time.time() - tm
Expired(tm) ==
    0 <= zmq_target_expire /\ zmq_target_expire <= now - tm

\* str(target) in self.outbound_sockets
InCache(target) == Str(target) \in DOMAIN outbound_sockets

\* _get_hosts_and_connect that takes a failed lookup for an empty host list
GetHostsAndConnectSwallow(socks, socket, target, disc, failAt) ==
    IF disc.raised \/ failAt \notin 1..Len(disc.hosts)
    THEN [ok |-> TRUE, ret |-> socket, looked |-> 1, hosts |-> disc.hosts,
          sockets |-> [socks EXCEPT
                         ![socket] = ConnectHosts(@, disc.hosts, Len(disc.hosts))],
          cache |-> TrackSocket(outbound_sockets, socket, target)]
    ELSE [ok |-> FALSE, ret |-> socket, looked |-> 1, hosts |-> disc.hosts,
          sockets |-> [socks EXCEPT
                         ![socket] = ConnectHosts(@, disc.hosts, failAt - 1)],
          cache |-> outbound_sockets]

\* _get_hosts_and_connect that tracks a socket only once it has a host link
GetHostsAndConnectSkipEmpty(socks, socket, target, disc, failAt) ==
    IF disc.raised
    THEN [ok |-> FALSE, ret |-> socket, looked |-> 1, hosts |-> <<>>,
          sockets |-> socks, cache |-> outbound_sockets]
    ELSE IF failAt \in 1..Len(disc.hosts)
    THEN [ok |-> FALSE, ret |-> socket, looked |-> 1, hosts |-> disc.hosts,
          sockets |-> [socks EXCEPT
                         ![socket] = ConnectHosts(@, disc.hosts, failAt - 1)],
          cache |-> outbound_sockets]
    ELSE [ok |-> TRUE, ret |-> socket, looked |-> 1, hosts |-> disc.hosts,
          sockets |-> [socks EXCEPT
                         ![socket] = ConnectHosts(@, disc.hosts, Len(disc.hosts))],
          cache |-> IF disc.hosts = <<>> THEN outbound_sockets
                    ELSE TrackSocket(outbound_sockets, socket, target)]

\* _get_hosts_and_connect that drops the target's entry when it fails
GetHostsAndConnectEvict(socks, socket, target, disc, failAt) ==
    LET evicted == [k \in DOMAIN outbound_sockets \ {Str(target)} |->
                       outbound_sockets[k]]
    IN  IF disc.raised
        THEN [ok |-> FALSE, ret |-> socket, looked |-> 1, hosts |-> <<>>,
              sockets |-> socks, cache |-> evicted]
        ELSE IF failAt \in 1..Len(disc.hosts)
        THEN [ok |-> FALSE, ret |-> socket, looked |-> 1, hosts |-> disc.hosts,
              sockets |-> [socks EXCEPT
                             ![socket] = ConnectHosts(@, disc.hosts, failAt - 1)],
              cache |-> evicted]
        ELSE [ok |-> TRUE, ret |-> socket, looked |-> 1, hosts |-> disc.hosts,
              sockets |-> [socks EXCEPT
                             ![socket] = ConnectHosts(@, disc.hosts, Len(disc.hosts))],
              cache |-> TrackSocket(outbound_sockets, socket, target)]

\* _get_hosts_and_connect that tracks the socket before it asks and connects
GetHostsAndConnectTrackFirst(socks, socket, target, disc, failAt) ==
    IF disc.raised
    THEN [ok |-> FALSE, ret |-> socket, looked |-> 1, hosts |-> <<>>,
          sockets |-> socks,
          cache |-> TrackSocket(outbound_sockets, socket, target)]
    ELSE IF failAt \in 1..Len(disc.hosts)
    THEN [ok |-> FALSE, ret |-> socket, looked |-> 1, hosts |-> disc.hosts,
          sockets |-> [socks EXCEPT
                         ![socket] = ConnectHosts(@, disc.hosts, failAt - 1)],
          cache |-> TrackSocket(outbound_sockets, socket, target)]
    ELSE [ok |-> TRUE, ret |-> socket, looked |-> 1, hosts |-> disc.hosts,
          sockets |-> [socks EXCEPT
                         ![socket] = ConnectHosts(@, disc.hosts, Len(disc.hosts))],
          cache |-> TrackSocket(outbound_sockets, socket, target)]

\* _get_hosts_and_connect(socket, target) on the socket objects `socks`:
\* get_hosts raises, or the failAt-th connect raises, or every host is
\* connected and the socket is tracked.  failAt = 0: no connect raises.
GetHostsAndConnect(socks, socket, target, disc, failAt) ==
    IF disc.raised
    THEN [ok |-> FALSE, ret |-> socket, looked |-> 1, hosts |-> <<>>,
          sockets |-> socks, cache |-> outbound_sockets]
    ELSE IF failAt \in 1..Len(disc.hosts)
    THEN [ok |-> FALSE, ret |-> socket, looked |-> 1, hosts |-> disc.hosts,
          sockets |-> [socks EXCEPT
                         ![socket] = ConnectHosts(@, disc.hosts, failAt - 1)],
          cache |-> outbound_sockets]
    ELSE [ok |-> TRUE, ret |-> socket, looked |-> 1, hosts |-> disc.hosts,
          sockets |-> [socks EXCEPT
                         ![socket] = ConnectHosts(@, disc.hosts, Len(disc.hosts))],
          cache |-> TrackSocket(outbound_sockets, socket, target)]

\* _check_for_new_hosts that replaces an expired socket by a new one
CheckForNewHostsRecreate(target, disc, failAt) ==
    LET socket == outbound_sockets[Str(target)][1]
        tm == outbound_sockets[Str(target)][2]
    IN  IF 0 <= zmq_target_expire /\ zmq_target_expire <= now - tm
        THEN GetHostsAndConnect(Append(sockets, ZmqSocket), Len(sockets) + 1,
                                target, disc, failAt)
        ELSE [ok |-> TRUE, ret |-> socket, looked |-> 0, hosts |-> <<>>,
              sockets |-> sockets, cache |-> outbound_sockets]

\* _check_for_new_hosts(target): the cached socket, refreshed when expired
CheckForNewHosts(target, disc, failAt) ==
    LET socket == outbound_sockets[Str(target)][1]
        tm == outbound_sockets[Str(target)][2]
    IN  IF Expired(tm)
        THEN GetHostsAndConnect(sockets, socket, target, disc, failAt)
        ELSE [ok |-> TRUE, ret |-> socket, looked |-> 0, hosts |-> <<>>,
              sockets |-> sockets, cache |-> outbound_sockets]

\* get_socket(target)
GetSocket(target, disc, failAt) ==
    /\ ncalls < MaxCalls
    /\ failAt <= Len(disc.hosts)
    /\ LET hit == InCache(target)
           r == IF hit
                THEN CheckForNewHosts(target, disc, failAt)
                ELSE GetHostsAndConnect(Append(sockets, ZmqSocket),
                                        Len(sockets) + 1, target, disc, failAt)
       IN  /\ sockets' = r.sockets
           /\ outbound_sockets' = r.cache
           /\ connected' = IF r.ok /\ r.looked = 1
                           THEN connected \cup {r.ret} ELSE connected
           /\ lookups' = [lookups EXCEPT ![target] = @ + r.looked]
           /\ calls' = [calls EXCEPT ![target] = @ + 1]
           /\ last' = [op |-> "get_socket", target |-> target, ok |-> r.ok,
                       ret |-> IF r.ok THEN r.ret ELSE 0,
                       hosts |-> Range(r.hosts)]
    /\ ncalls' = ncalls + 1
    /\ UNCHANGED <<zmq_target_expire, now, threads>>

\* get_socket_to_broker that does not record the new socket in the cache
GetSocketToBrokerUntracked(target, raises) ==
    /\ ncalls < MaxCalls
    /\ LET socket == Len(sockets) + 1
       IN  /\ sockets' = Append(sockets, IF raises THEN ZmqSocket
                                         ELSE connect_to_address(ZmqSocket))
           /\ connected' = IF raises THEN connected
                           ELSE connected \cup {socket}
           /\ last' = [op |-> "get_socket_to_broker", target |-> target,
                       ok |-> ~raises, ret |-> IF raises THEN 0 ELSE socket,
                       hosts |-> {}]
    /\ ncalls' = ncalls + 1
    /\ UNCHANGED <<outbound_sockets, zmq_target_expire, now, lookups, calls,
                   threads>>

\* get_socket_to_broker that hands out the cached socket when there is one
GetSocketToBrokerCached(target, raises) ==
    /\ ncalls < MaxCalls
    /\ LET hit == InCache(target)
           socket == IF hit THEN outbound_sockets[Str(target)][1]
                     ELSE Len(sockets) + 1
           socks == IF hit THEN sockets ELSE Append(sockets, ZmqSocket)
       IN  /\ outbound_sockets' = TrackSocket(outbound_sockets, socket, target)
           /\ sockets' = IF raises THEN socks
                         ELSE [socks EXCEPT ![socket] = connect_to_address(@)]
           /\ connected' = IF raises THEN connected
                           ELSE connected \cup {socket}
           /\ last' = [op |-> "get_socket_to_broker", target |-> target,
                       ok |-> ~raises, ret |-> IF raises THEN 0 ELSE socket,
                       hosts |-> {}]
    /\ ncalls' = ncalls + 1
    /\ UNCHANGED <<zmq_target_expire, now, lookups, calls,
                   threads>>

\* get_socket_to_broker(target): the new socket is tracked, then connected
\* to the broker address; connect_to_address may raise
GetSocketToBroker(target, raises) ==
    /\ ncalls < MaxCalls
    /\ LET socket == Len(sockets) + 1
       IN  /\ outbound_sockets' = TrackSocket(outbound_sockets, socket, target)
           /\ sockets' = Append(sockets, IF raises THEN ZmqSocket
                                         ELSE connect_to_address(ZmqSocket))
           /\ connected' = IF raises THEN connected
                           ELSE connected \cup {socket}
           /\ last' = [op |-> "get_socket_to_broker", target |-> target,
                       ok |-> ~raises, ret |-> IF raises THEN 0 ELSE socket,
                       hosts |-> {}]
    /\ ncalls' = ncalls + 1
    /\ UNCHANGED <<zmq_target_expire, now, lookups, calls,
                   threads>>

\* the sockets the cache holds: outbound_sockets.values()
Tracked == {outbound_sockets[k][1] : k \in DOMAIN outbound_sockets}

\* cleanup(): close every socket in outbound_sockets.values()
Cleanup ==
    /\ sockets' = [s \in DOMAIN sockets |->
                     IF s \in Tracked THEN close(sockets[s]) ELSE sockets[s]]
    /\ last' = [NoCall EXCEPT !.op = "cleanup"]
    /\ UNCHANGED <<outbound_sockets, connected, zmq_target_expire, now,
                   lookups, calls, ncalls, threads>>

\* time.time() moves forward
Tick ==
    /\ now < MaxTime
    /\ now' = now + 1
    /\ UNCHANGED <<outbound_sockets, sockets, connected, zmq_target_expire,
                   lookups, calls, ncalls, last, threads>>

Next ==
    \/ \E target \in Targets, disc \in Discoveries, failAt \in 0..Cardinality(Hosts) :
           GetSocket(target, disc, failAt)
    \/ \E target \in Targets, raises \in BOOLEAN :
           GetSocketToBroker(target, raises)
    \/ Cleanup
    \/ Tick

Spec == Init /\ [][Next]_vars

\* ------------------------------------------------------------- the steps
\* this step is a call of get_socket(target)
IsGetSocket(target) == calls'[target] = calls[target] + 1

\* this step is a call of get_socket_to_broker(target)
IsGetSocketToBroker(target) ==
    /\ ncalls' = ncalls + 1
    /\ calls' = calls
    /\ last'.target = target

\* the entry of a cached target: its socket, its timestamp, its age
EntrySocket(target) == outbound_sockets[Str(target)][1]
EntryTime(target) == outbound_sockets[Str(target)][2]
Elapsed(target) == now - EntryTime(target)

TypeOK ==
    /\ DOMAIN outbound_sockets \subseteq {Str(t) : t \in Targets}
    /\ \A k \in DOMAIN outbound_sockets :
          /\ outbound_sockets[k][1] \in DOMAIN sockets
          /\ outbound_sockets[k][2] \in 0..now
    /\ \A s \in DOMAIN sockets : sockets[s].hosts \subseteq Hosts
    /\ connected \subseteq DOMAIN sockets
    /\ zmq_target_expire \in ExpireValues
    /\ now \in 0..MaxTime
    /\ ncalls \in 0..MaxCalls
    /\ \A t \in Targets : lookups[t] <= calls[t] /\ calls[t] <= ncalls

\* ------------------------------------------------------------------- C1
\* C1: once cleanup() has run, every socket the manager ever created is
\* closed, the sockets of get_socket_to_broker and the sockets whose cache
\* slot was written again included.
C1_CleanupClosesEverySocket ==
    last.op = "cleanup" => \A s \in DOMAIN sockets : sockets[s].closed

\* ------------------------------------------------------------------- C2
\* C2: no cache entry ever holds a closed socket, and get_socket never
\* returns a closed socket.
C2_NoClosedSocketInCache ==
    /\ \A k \in DOMAIN outbound_sockets :
          ~sockets[outbound_sockets[k][1]].closed
    /\ (last.op = "get_socket" /\ last.ok) => ~sockets[last.ret].closed

\* ------------------------------------------------------------------- C3
\* C3: after a call that failed in a connect (or in the lookup), the cache
\* has no entry for the call's target, or the entry's socket is one on
\* which a call completed all of its connects.
C3_NoHalfConnectedEntry ==
    (last.op \in {"get_socket", "get_socket_to_broker"} /\ ~last.ok)
        => (InCache(last.target) => EntrySocket(last.target) \in connected)

\* ------------------------------------------------------------------- C4
\* a successful get_socket_to_broker(target) followed, with no other call
\* in between, by a successful get_socket(target)
BrokerThenGet(target) ==
    /\ last.op = "get_socket_to_broker"
    /\ last.target = target
    /\ last.ok
    /\ IsGetSocket(target)
    /\ last'.ok

\* C4 as stated: get_socket_to_broker(T) followed by get_socket(T) yields
\* two distinct sockets, both tracked by the manager afterwards.
C4_TwoIndependentSockets ==
    [][\A t \in Targets :
          BrokerThenGet(t) =>
              /\ last'.ret # last.ret
              /\ {last.ret, last'.ret} \subseteq
                     {outbound_sockets'[k][1] : k \in DOMAIN outbound_sockets'}
      ]_vars

\* C4 amended: get_socket_to_broker(T) followed by get_socket(T) yields the
\* same socket twice: get_socket finds the entry that get_socket_to_broker
\* recorded and returns its socket, creates no socket, and the entry of T
\* still holds that socket.
C4_GetReturnsBrokerSocket ==
    [][\A t \in Targets :
          BrokerThenGet(t) =>
              /\ last'.ret = last.ret
              /\ Len(sockets') = Len(sockets)
              /\ outbound_sockets'[Str(t)][1] = last.ret
      ]_vars

\* get_socket has returned the socket that get_socket_to_broker connected
\* to the broker: the two calls made one socket
C4_Witness ==
    /\ last.op = "get_socket"
    /\ last.ok
    /\ ncalls = 2
    /\ calls[last.target] = 1
    /\ Len(sockets) = 1
    /\ last.ret = 1
    /\ sockets[1].broker
    /\ EntrySocket(last.target) = 1

\* ------------------------------------------------------------------- C5
\* C5: a successful get_socket(T) for a target with no cache entry asks the
\* matchmaker exactly once, and leaves an entry for T that holds the socket
\* it created and returned, with the current time.
C5_MissLooksUpOnceAndTracks ==
    [][\A t \in Targets :
          (IsGetSocket(t) /\ ~InCache(t) /\ last'.ok) =>
              /\ lookups'[t] = lookups[t] + 1
              /\ Len(sockets') = Len(sockets) + 1
              /\ last'.ret = Len(sockets) + 1
              /\ Str(t) \in DOMAIN outbound_sockets'
              /\ outbound_sockets'[Str(t)] = <<Len(sockets) + 1, now>>
      ]_vars

\* a first get_socket succeeded at a time other than 0
C5_Witness ==
    /\ last.op = "get_socket"
    /\ last.ok
    /\ ncalls = 1
    /\ lookups[last.target] = 1
    /\ now > 0
    /\ outbound_sockets[Str(last.target)] = <<last.ret, now>>

\* ------------------------------------------------------------------- C6
\* C6: with a threshold >= 0, get_socket(T) for a cached target whose entry
\* is younger than the threshold asks the matchmaker nothing, returns the
\* entry's socket and leaves the entry as it was.
C6_FreshHitLeavesEntry ==
    [][\A t \in Targets :
          (IsGetSocket(t) /\ InCache(t) /\ zmq_target_expire >= 0
             /\ Elapsed(t) < zmq_target_expire) =>
              /\ lookups'[t] = lookups[t]
              /\ last'.ok
              /\ last'.ret = EntrySocket(t)
              /\ outbound_sockets' = outbound_sockets
              /\ sockets' = sockets
      ]_vars

\* two get_socket calls of a target made one lookup, the entry still young
C6_Witness ==
    /\ zmq_target_expire > 0
    /\ last.op = "get_socket"
    /\ last.ok
    /\ ncalls = 2
    /\ calls[last.target] = 2
    /\ lookups[last.target] = 1
    /\ InCache(last.target)
    /\ last.ret = EntrySocket(last.target)
    /\ Elapsed(last.target) < zmq_target_expire

\* ------------------------------------------------------------------- C7
\* C7: with a threshold >= 0, get_socket(T) for a cached target whose entry
\* is as old as the threshold or older (elapsed = threshold included) asks
\* the matchmaker exactly once and, when the call returns, the entry has
\* the current time.
C7_ExpiredHitRefreshes ==
    [][\A t \in Targets :
          (IsGetSocket(t) /\ InCache(t) /\ zmq_target_expire >= 0
             /\ Elapsed(t) >= zmq_target_expire) =>
              /\ lookups'[t] = lookups[t] + 1
              /\ last'.ok =>
                    outbound_sockets'[Str(t)] = <<EntrySocket(t), now>>
      ]_vars

\* a refresh at the boundary: the entry was written at 0 and the second
\* get_socket came when exactly the threshold had elapsed
C7_Witness ==
    /\ zmq_target_expire = ExpireThreshold
    /\ last.op = "get_socket"
    /\ last.ok
    /\ ncalls = 2
    /\ calls[last.target] = 2
    /\ lookups[last.target] = 2
    /\ Len(sockets) = 1
    /\ now = ExpireThreshold
    /\ outbound_sockets[Str(last.target)] = <<1, now>>

\* ------------------------------------------------------------------- C8
\* C8: refresh is in place.  get_socket(T) for a cached target returns the
\* entry's socket and leaves it in the entry; only get_socket_to_broker(T)
\* puts another socket into T's entry; no step removes a host link of any
\* socket; and a refresh that returns adds to the socket exactly the hosts
\* the lookup returned.
C8_RefreshInPlace ==
    [][/\ \A t \in Targets :
             (IsGetSocket(t) /\ InCache(t)) =>
                 /\ last'.ok => last'.ret = EntrySocket(t)
                 /\ outbound_sockets'[Str(t)][1] = EntrySocket(t)
                 /\ Len(sockets') = Len(sockets)
                 /\ last'.ok =>
                        sockets'[EntrySocket(t)].hosts =
                            sockets[EntrySocket(t)].hosts \cup last'.hosts
       /\ \A t \in Targets :
             (InCache(t) /\ outbound_sockets'[Str(t)][1] # EntrySocket(t))
                 => IsGetSocketToBroker(t)
       /\ \A s \in DOMAIN sockets :
             sockets[s].hosts \subseteq sockets'[s].hosts
      ]_vars

\* the one socket of a target asked for twice: the first call connected it
\* to a host, the second call refreshed it with a lookup that returned no
\* host, and the link is still there
C8_Witness ==
    /\ last.op = "get_socket"
    /\ last.ok
    /\ ncalls = 2
    /\ calls[last.target] = 2
    /\ lookups[last.target] = 2
    /\ Len(sockets) = 1
    /\ last.ret = 1
    /\ last.hosts = {}
    /\ sockets[1].hosts = Hosts

\* ------------------------------------------------------------------- C9
\* C9: with a negative threshold, get_socket(T) for a cached target never
\* asks the matchmaker and never changes the entry, whatever time has
\* elapsed; it returns the entry's socket.
C9_NegativeNeverRefreshes ==
    [][\A t \in Targets :
          (IsGetSocket(t) /\ InCache(t) /\ zmq_target_expire < 0) =>
              /\ lookups' = lookups
              /\ outbound_sockets' = outbound_sockets
              /\ last'.ok
              /\ last'.ret = EntrySocket(t)
      ]_vars

\* never expire: a second get_socket after the longest time there is
C9_Witness ==
    /\ zmq_target_expire < 0
    /\ last.op = "get_socket"
    /\ ncalls = 2
    /\ calls[last.target] = 2
    /\ lookups[last.target] = 1
    /\ InCache(last.target)
    /\ last.ret = EntrySocket(last.target)
    /\ Elapsed(last.target) = MaxTime

\* ------------------------------------------------------------------ C10
\* C10: with threshold 0 every get_socket(T) call, cached or not, asks the
\* matchmaker: for every target the number of lookups is the number of
\* get_socket calls.
C10_ZeroAlwaysLooksUp ==
    zmq_target_expire = 0 => \A t \in Targets : lookups[t] = calls[t]

\* threshold 0: one target asked for as often as the run allows, every call
\* after the first a hit on the same socket, with no time elapsed in between
C10_Witness ==
    /\ zmq_target_expire = 0
    /\ last.op = "get_socket"
    /\ last.ok
    /\ calls[last.target] = MaxCalls
    /\ lookups[last.target] = MaxCalls
    /\ Len(sockets) = 1
    /\ now = 0

\* ------------------------------------------------------------------ C11
\* the two results of matchmaker.get_hosts the claims name
DiscoveryError == [raised |-> TRUE, hosts |-> <<>>]
NoHosts == [raised |-> FALSE, hosts |-> <<>>]

\* C11: when get_hosts raises during get_socket(T) for a target with no
\* cache entry, the call ends in the error and returns nothing, get_hosts
\* was asked exactly once, and the cache is as it was, with no entry for T.
C11_FailedLookupPropagates ==
    [][\A t \in Targets :
          (GetSocket(t, DiscoveryError, 0) /\ ~InCache(t)) =>
              /\ ~last'.ok
              /\ last'.ret = 0
              /\ lookups'[t] = lookups[t] + 1
              /\ Str(t) \notin DOMAIN outbound_sockets'
              /\ outbound_sockets' = outbound_sockets
      ]_vars

\* a first get_socket whose lookup raised: one lookup, an error, no entry
C11_Witness ==
    /\ last.op = "get_socket"
    /\ ~last.ok
    /\ last.hosts = {}
    /\ ncalls = 1
    /\ lookups[last.target] = 1
    /\ ~InCache(last.target)

\* ------------------------------------------------------------------ C12
\* C12: when get_hosts returns no host during get_socket(T) for a target
\* with no cache entry, the call succeeds and returns a new socket that is
\* linked to no host, and T's entry holds that socket with the current
\* time.
C12_EmptyHostListIsCached ==
    [][\A t \in Targets :
          (GetSocket(t, NoHosts, 0) /\ ~InCache(t)) =>
              /\ last'.ok
              /\ last'.ret = Len(sockets) + 1
              /\ Len(sockets') = Len(sockets) + 1
              /\ sockets'[last'.ret] = ZmqSocket
              /\ Str(t) \in DOMAIN outbound_sockets'
              /\ outbound_sockets'[Str(t)] = <<last'.ret, now>>
      ]_vars

\* a first get_socket that found no host: its socket is cached, linked to
\* nothing, at a time other than 0
C12_Witness ==
    /\ last.op = "get_socket"
    /\ last.ok
    /\ last.hosts = {}
    /\ ncalls = 1
    /\ now > 0
    /\ InCache(last.target)
    /\ outbound_sockets[Str(last.target)] = <<last.ret, now>>
    /\ sockets[last.ret].hosts = {}
    /\ ~sockets[last.ret].broker

\* ------------------------------------------------------------------ C13
\* C13: every get_socket_to_broker(T), cached target or not, creates a
\* socket that no earlier call created, asks the matchmaker nothing and
\* leaves T's entry holding the new socket; the socket it returns is
\* linked to the broker address and to no host.
C13_BrokerAlwaysCreates ==
    [][\A t \in Targets :
          IsGetSocketToBroker(t) =>
              /\ Len(sockets') = Len(sockets) + 1
              /\ \A s \in DOMAIN sockets : sockets'[s] = sockets[s]
              /\ lookups' = lookups
              /\ outbound_sockets'[Str(t)] = <<Len(sockets) + 1, now>>
              /\ \A u \in Targets \ {t} :
                    InCache(u) =>
                        outbound_sockets'[Str(u)] = outbound_sockets[Str(u)]
              /\ last'.ok =>
                    /\ last'.ret = Len(sockets) + 1
                    /\ sockets'[last'.ret] =
                           [hosts |-> {}, broker |-> TRUE, closed |-> FALSE]
      ]_vars

\* get_socket_to_broker for a target that get_socket had cached: a second
\* socket, linked to the broker alone, has taken the entry
C13_Witness ==
    /\ last.op = "get_socket_to_broker"
    /\ last.ok
    /\ ncalls = 2
    /\ calls[last.target] = 1
    /\ lookups[last.target] = 1
    /\ Len(sockets) = 2
    /\ last.ret = 2
    /\ sockets[1].hosts = Hosts
    /\ sockets[2] = [hosts |-> {}, broker |-> TRUE, closed |-> FALSE]
    /\ EntrySocket(last.target) = 2

\* ------------------------------------------------------------------ C17
\* C17: no step of get_socket or get_socket_to_broker, returning or
\* raising, takes a key out of the cache: a key that has an entry has one
\* in every later state (outbound_sockets is a mapping, so it is one entry).
C17_KeysNeverShrink ==
    [][\A k \in DOMAIN outbound_sockets : k \in DOMAIN outbound_sockets']_vars

\* a refresh that raised in its connect: the target's entry is still there
C17_Witness ==
    /\ last.op = "get_socket"
    /\ ~last.ok
    /\ last.hosts = Hosts
    /\ InCache(last.target)
    /\ Cardinality(DOMAIN outbound_sockets) = 2

\* ------------------------------------------------------------------ C18
\* C18: when the lookup or a connect raises during the refresh of a cached,
\* expired target T, T's entry keeps its socket and its old timestamp, so
\* it is still expired; and the next get_socket(T) asks the matchmaker
\* again.
C18_FailedRefreshKeepsEntry ==
    [][/\ \A t \in Targets :
             (IsGetSocket(t) /\ InCache(t) /\ Expired(EntryTime(t))
                /\ ~last'.ok) =>
                 /\ outbound_sockets' = outbound_sockets
                 /\ lookups'[t] = lookups[t] + 1
                 /\ (Expired(EntryTime(t)))'
       /\ \A t \in Targets :
             (last.op = "get_socket" /\ last.target = t /\ ~last.ok
                /\ InCache(t) /\ IsGetSocket(t)) =>
                 lookups'[t] = lookups[t] + 1
      ]_vars

\* a refresh of an entry written at time 0 raised in its connect after the
\* threshold had passed: the entry still has time 0
C18_Witness ==
    /\ zmq_target_expire = ExpireThreshold
    /\ last.op = "get_socket"
    /\ ~last.ok
    /\ last.hosts = Hosts
    /\ ncalls = 2
    /\ calls[last.target] = 2
    /\ lookups[last.target] = 2
    /\ InCache(last.target)
    /\ EntryTime(last.target) = 0
    /\ now > ExpireThreshold

\* ------------------------------------------------------------------ C19
\* the runs of one caller that are made of get_socket calls that return,
\* and of cleanup(): the matchmaker answers and no connect raises
NextGets ==
    \/ \E target \in Targets, disc \in Discoveries :
           ~disc.raised /\ GetSocket(target, disc, 0)
    \/ Cleanup
    \/ Tick

SpecGets == Init /\ [][NextGets]_vars

\* the targets get_socket was called for
Requested == {t \in Targets : calls[t] > 0}

\* C19: in a run of one caller made only of get_socket calls that return,
\* the manager has created as many sockets as distinct targets were asked
\* for, every socket it created is held by exactly one cache entry, and
\* once cleanup() has run all of them are closed.
C19_OneSocketPerTarget ==
    /\ Len(sockets) = Cardinality(Requested)
    /\ \A s \in DOMAIN sockets :
          Cardinality({k \in DOMAIN outbound_sockets :
                          outbound_sockets[k][1] = s}) = 1
    /\ last.op = "cleanup" => \A s \in DOMAIN sockets : sockets[s].closed

\* cleanup() after as many get_socket calls as the run allows, for both
\* targets: two sockets, both closed
C19_Witness ==
    /\ last.op = "cleanup"
    /\ ncalls = MaxCalls
    /\ Requested = Targets
    /\ Len(sockets) = 2
    /\ \A s \in DOMAIN sockets : sockets[s].closed

\* ------------------------------------------------------ concurrent calls
\* SpecConc runs the same manager with the callers of Threads, each call
\* cut where another thread can run in between: after the membership test,
\* after the read of the entry, after the lookup and its connects, between
\* the time.time() of _track_socket and its store, and between the steps
\* of cleanup()'s loop.  The code takes no lock.  ncalls counts the calls
\* begun, cleanup() included.

\* the callers' variables of the one-caller runs stay as they are
ConcFrame == UNCHANGED <<connected, zmq_target_expire, now, last>>

\* thread th ends its call, returning ret or raising err
Return(th, ret, err) ==
    [threads EXCEPT ![th] = [Idle EXCEPT !.ret = ret, !.err = err]]

\* get_socket(target), lines 131-135: the membership test and, on a miss,
\* the new ZmqSocket
BeginGetSocket(th, target) ==
    /\ threads[th].pc = "idle"
    /\ ncalls < MaxConcCalls
    /\ ncalls' = ncalls + 1
    /\ IF InCache(target)
       THEN /\ threads' = [threads EXCEPT ![th] =
                   [Idle EXCEPT !.pc = "check_for_new_hosts",
                                !.op = "get_socket", !.target = target]]
            /\ sockets' = sockets
       ELSE /\ threads' = [threads EXCEPT ![th] =
                   [Idle EXCEPT !.pc = "get_hosts", !.op = "get_socket",
                                !.target = target, !.miss = TRUE,
                                !.socket = Len(sockets) + 1]]
            /\ sockets' = Append(sockets, ZmqSocket)
    /\ UNCHANGED <<outbound_sockets, lookups, calls>>
    /\ ConcFrame

\* _check_for_new_hosts, lines 125-128: the read of the entry and the
\* expiry test
CheckForNewHostsStep(th) ==
    /\ threads[th].pc = "check_for_new_hosts"
    /\ LET target == threads[th].target
           socket == outbound_sockets[Str(target)][1]
           tm == outbound_sockets[Str(target)][2]
       IN  threads' =
             IF Expired(tm)
             THEN [threads EXCEPT ![th].pc = "get_hosts",
                                  ![th].socket = socket, ![th].tm = tm]
             ELSE Return(th, socket, "")
    /\ UNCHANGED <<outbound_sockets, sockets, lookups, calls, ncalls>>
    /\ ConcFrame

\* _get_hosts_and_connect, lines 118-121: the lookup and the connects
GetHostsStep(th, disc, failAt) ==
    /\ threads[th].pc = "get_hosts"
    /\ failAt <= Len(disc.hosts)
    /\ lookups' = [lookups EXCEPT ![threads[th].target] = @ + 1]
    /\ IF disc.raised
       THEN /\ threads' = Return(th, 0, "DiscoveryError")
            /\ sockets' = sockets
       ELSE IF failAt \in 1..Len(disc.hosts)
       THEN /\ threads' = Return(th, 0, "RPCException")
            /\ sockets' = [sockets EXCEPT ![threads[th].socket] =
                              ConnectHosts(@, disc.hosts, failAt - 1)]
       ELSE /\ threads' = [threads EXCEPT ![th].pc = "track_socket"]
            /\ sockets' = [sockets EXCEPT ![threads[th].socket] =
                              ConnectHosts(@, disc.hosts, Len(disc.hosts))]
    /\ UNCHANGED <<outbound_sockets, calls, ncalls>>
    /\ ConcFrame

\* _track_socket, line 115: time.time() is evaluated
TrackTime(th) ==
    /\ threads[th].pc = "track_socket"
    /\ threads' = [threads EXCEPT ![th].pc = "store", ![th].tm = now]
    /\ UNCHANGED <<outbound_sockets, sockets, lookups, calls, ncalls>>
    /\ ConcFrame

\* the store of line 115 that keeps an entry another caller wrote first
StoreIfAbsent(th) ==
    /\ threads[th].pc = "store"
    /\ LET me == threads[th]
           kept == InCache(me.target) /\ me.miss
           entry == IF kept THEN outbound_sockets[Str(me.target)]
                    ELSE <<me.socket, me.tm>>
       IN  /\ outbound_sockets' =
                 [k \in DOMAIN outbound_sockets \cup {Str(me.target)} |->
                     IF k = Str(me.target) THEN entry
                     ELSE outbound_sockets[k]]
           /\ threads' =
                 IF me.op = "get_socket" THEN Return(th, entry[1], "")
                 ELSE [threads EXCEPT ![th].pc = "connect_to_address"]
    /\ UNCHANGED <<sockets, lookups, calls, ncalls>>
    /\ ConcFrame

\* _track_socket, line 115: the store into outbound_sockets; get_socket
\* then returns its socket (lines 128, 137)
Store(th) ==
    /\ threads[th].pc = "store"
    /\ LET me == threads[th]
       IN  /\ outbound_sockets' =
                 [k \in DOMAIN outbound_sockets \cup {Str(me.target)} |->
                     IF k = Str(me.target) THEN <<me.socket, me.tm>>
                     ELSE outbound_sockets[k]]
           /\ threads' =
                 IF me.op = "get_socket" THEN Return(th, me.socket, "")
                 ELSE [threads EXCEPT ![th].pc = "connect_to_address"]
    /\ UNCHANGED <<sockets, lookups, calls, ncalls>>
    /\ ConcFrame

\* get_socket_to_broker(target), lines 140-141: the new ZmqSocket
BeginGetSocketToBroker(th, target) ==
    /\ threads[th].pc = "idle"
    /\ ncalls < MaxConcCalls
    /\ ncalls' = ncalls + 1
    /\ threads' = [threads EXCEPT ![th] =
           [Idle EXCEPT !.pc = "track_socket", !.op = "get_socket_to_broker",
                        !.target = target, !.socket = Len(sockets) + 1]]
    /\ sockets' = Append(sockets, ZmqSocket)
    /\ UNCHANGED <<outbound_sockets, lookups, calls>>
    /\ ConcFrame

\* get_socket_to_broker, lines 143-145: the connect to the broker address
ConnectToBroker(th, raises) ==
    /\ threads[th].pc = "connect_to_address"
    /\ IF raises
       THEN /\ threads' = Return(th, 0, "RPCException")
            /\ sockets' = sockets
       ELSE /\ threads' = Return(th, threads[th].socket, "")
            /\ sockets' = [sockets EXCEPT ![threads[th].socket] =
                              connect_to_address(@)]
    /\ UNCHANGED <<outbound_sockets, lookups, calls, ncalls>>
    /\ ConcFrame

\* cleanup(), line 148: outbound_sockets.values() is taken.  view: it is
\* a view of the dict (Python 3), whose iterator remembers the size of
\* the dict; otherwise it is a list, a copy of the values (Python 2)
BeginCleanup(th, view) ==
    /\ threads[th].pc = "idle"
    /\ ncalls < MaxConcCalls
    /\ ncalls' = ncalls + 1
    /\ threads' = [threads EXCEPT ![th] =
           [Idle EXCEPT !.pc = "cleanup", !.op = "cleanup", !.view = view,
                        !.size = Cardinality(DOMAIN outbound_sockets),
                        !.todo = DOMAIN outbound_sockets,
                        !.snap = IF view THEN <<>> ELSE outbound_sockets]]
    /\ UNCHANGED <<outbound_sockets, sockets, lookups, calls>>
    /\ ConcFrame

\* cleanup(), lines 148-149: the iterator's next value and its close().
\* The iterator of a view raises RuntimeError ("dictionary changed size
\* during iteration") when the dict has another size than at its start.
CleanupStep(th) ==
    /\ threads[th].pc = "cleanup"
    /\ LET me == threads[th]
       IN  IF me.view /\ Cardinality(DOMAIN outbound_sockets) # me.size
           THEN /\ threads' = Return(th, 0, "RuntimeError")
                /\ sockets' = sockets
           ELSE IF me.todo = {}
           THEN /\ threads' = Return(th, 0, "")
                /\ sockets' = sockets
           ELSE \E k \in me.todo :
                  LET socket == IF me.view THEN outbound_sockets[k][1]
                                ELSE me.snap[k][1]
                  IN  /\ sockets' = [sockets EXCEPT ![socket] = close(@)]
                      /\ threads' = [threads EXCEPT ![th].todo = @ \ {k}]
    /\ UNCHANGED <<outbound_sockets, lookups, calls, ncalls>>
    /\ ConcFrame

NextConc ==
    \/ \E th \in Threads, target \in Targets : BeginGetSocket(th, target)
    \/ \E th \in Threads : CheckForNewHostsStep(th)
    \/ \E th \in Threads, disc \in Discoveries,
          failAt \in 0..Cardinality(Hosts) : GetHostsStep(th, disc, failAt)
    \/ \E th \in Threads : TrackTime(th)
    \/ \E th \in Threads : Store(th)
    \/ \E th \in Threads, target \in Targets :
           BeginGetSocketToBroker(th, target)
    \/ \E th \in Threads, raises \in BOOLEAN : ConnectToBroker(th, raises)
    \/ \E th \in Threads, view \in BOOLEAN : BeginCleanup(th, view)
    \/ \E th \in Threads : CleanupStep(th)
    \/ Tick

SpecConc == Init /\ [][NextConc]_vars

\* ------------------------------------------------------------------ C14
\* C14: cleanup() never ends in an error, in whatever way its loop over
\* the entries is interleaved with another caller that inserts an entry.
C14_CleanupNeverRaises ==
    \A th \in Threads : threads[th].err # "RuntimeError"

\* ------------------------------------------------------------------ C15
\* the callers that are in get_socket(target) after a miss
Missed(target) ==
    {th \in Threads : /\ threads[th].op = "get_socket"
                      /\ threads[th].target = target
                      /\ threads[th].miss}

\* C15: callers that are in get_socket(T) at once and all saw a miss each
\* hold a socket of their own; each has asked the matchmaker by the time
\* it tracks its socket; each store puts the storing caller's socket into
\* T's entry, whatever another caller stored there before; and each such
\* call returns its own socket.
C15_LastWriterWins ==
    [][/\ \A t \in Targets : \A a, b \in Missed(t) :
             a # b => threads[a].socket # threads[b].socket
       /\ \A t \in Targets :
             lookups[t] >= Cardinality({th \in Missed(t) :
                               threads[th].pc \in {"track_socket", "store"}})
       /\ \A th \in Threads :
             (threads[th].pc = "store" /\ threads'[th].pc # "store") =>
                 /\ outbound_sockets'[Str(threads[th].target)] =
                        <<threads[th].socket, threads[th].tm>>
                 /\ threads[th].op = "get_socket" =>
                        /\ threads'[th].ret = threads[th].socket
                        /\ threads'[th].err = ""
      ]_vars

\* both callers have returned from get_socket for the same target, each with
\* its own socket after its own lookup, and the entry holds one of the two
C15_Witness ==
    \E t \in Targets :
        /\ \A th \in Threads :
              threads[th].pc = "idle" /\ threads[th].ret # 0
        /\ threads["a"].ret # threads["b"].ret
        /\ ncalls = 2
        /\ lookups[t] = 2
        /\ Len(sockets) = 2
        /\ InCache(t)
        /\ EntrySocket(t) \in {threads["a"].ret, threads["b"].ret}

\* ------------------------------------------------------------------ C16
\* C16: with a clock that only moves forward, no write to an existing
\* entry, by a refresh of get_socket or by get_socket_to_broker, stores a
\* timestamp smaller than the one the entry held, with concurrent callers
\* too.
C16_TimestampsNeverDecrease ==
    [][\A k \in DOMAIN outbound_sockets :
          outbound_sockets'[k][2] >= outbound_sockets[k][2]]_vars

====
